---- MODULE Spec2Model ----
(***************************************************************************)
(* A state-machine model of coldcore's terminal front end                  *)
(* (src/src/coldcore/ui.py): the scene controller draw_menu, HomeScene,    *)
(* DashboardScene with its two background pollers, and the onboarding      *)
(* sequence TermSetupScene.draw.                                           *)
(***************************************************************************)
EXTENDS Integers, Sequences, FiniteSets, TLC

(***************************************************************************)
(* Key codes and program constants                                         *)
(***************************************************************************)
\* ord("q")
KEY_Q == 113
\* ord("j")
KEY_J == 106
\* ord("k")
KEY_K == 107
\* ord("n")
KEY_N == 110
\* the literal key codes 10 and 13 accepted as confirm
KEY_LF == 10
KEY_CR == 13
\* curses.KEY_ENTER, curses.KEY_DOWN, curses.KEY_UP
KEY_ENTER == 343
KEY_DOWN == 258
KEY_UP == 259
\* len(self.new_addrs) < 10
MAX_NEW_ADDRS == 10
\* self.loop_count % 20
CONN_REFRESH_TICKS == 20
\* getch() with nothing read / the "no key" value the scenes return
NO_KEY == -1
\* draw_menu starts with k = 0
INITIAL_KEY == 0
\* chaininfo without a "blocks" key; no rescan height computed yet
NO_BLOCKS == -1
NO_HEIGHT == -1
\* a sync poll whose RPC call raised, in sync_polls
POLL_RAISED == -1
\* verificationprogress < 0.999, in thousandths
SYNC_THRESHOLD == 999
\* the value of hk before any HomeScene.draw call (not a key code)
NO_CALL == -2

\* keys no scene gives a meaning to: ord("x")
OtherKeys == {120}
\* the keys a getch() may return in Home
Keys == {NO_KEY, KEY_Q, KEY_J, KEY_K, KEY_N, KEY_LF, KEY_CR, KEY_ENTER,
         KEY_DOWN, KEY_UP} \cup OtherKeys
\* the keys a getch() may return in the Dashboard (timeout, quit, new address)
DashKeys == {NO_KEY, KEY_Q, KEY_N}

\* the Action singletons
GoHome == "GoHome"
GoSetup == "GoSetup"
GoDashboard == "GoDashboard"
Quit == "Quit"

(***************************************************************************)
(* Bounds of the model                                                     *)
(***************************************************************************)
\* the number of addresses getnewaddress hands out before the user stops asking
MaxAddrs == 2
\* the number of chain tips the node reports before the tip stops changing
MaxBlocks == 2
\* the number of Dashboard render ticks after which the user presses quit
MaxTicks == 2
\* the number of chain-sync polls after which the node reports it is synced
MaxPolls == 3
\* the number of onboarding runs of a session that are followed
MaxSetupRuns == 1

\* verificationprogress values getblockchaininfo may report, in thousandths
ProgressReports == {500, 998, 999}
\* the "blocks" value of a getblockchaininfo result
ChainHeights == {700}
\* the unspents lists scantxoutset may return: (amount, height) entries
ScanResults == {<<>>, <<[amount |-> 5, height |-> 120]>>,
                <<[amount |-> 5, height |-> 120], [amount |-> 1, height |-> 90]>>}
\* terminal heights returned by getmaxyx(): max_lines is 1 and 3 for these
Heights == {7, 12}

\* the wallet_configs lists draw_menu may be handed
WalletConfigLists == {<<>>, <<"wallet1">>}
\* the addresses the node may report UTXOs for
UtxoAddrs == {1, 2}
\* block hashes the node may report as best block (0 stands for None)
Hashes == 1..2
NoHash == 0

(***************************************************************************)
(* Pure helpers                                                            *)
(***************************************************************************)
\* the Utxo the node reports for address a
Utxo(a) == [address |-> a, amount |-> a + 2, num_confs |-> 2 * a]

RECURSIVE SeqSum(_)
SeqSum(s) == IF s = <<>> THEN 0 ELSE Head(s) + SeqSum(Tail(s))

\* sum([u.amount for u in us])
SumAmounts(us) == SeqSum([i \in 1..Len(us) |-> us[i].amount])

\* Python s[-m:]
SliceLast(s, m) ==
  LET n == Len(s)
      start == IF m > 0 THEN (IF n - m > 0 THEN n - m ELSE 0)
               ELSE IF m = 0 THEN 0
               ELSE (IF -m < n THEN -m ELSE n)
  IN SubSeq(s, start + 1, n)

\* insert u into the sorted sequence s after every element whose key is <= its own
RECURSIVE InsertByKey(_, _)
InsertByKey(s, u) ==
  IF s = <<>> THEN <<u>>
  ELSE IF -Head(s).num_confs <= -u.num_confs
       THEN <<Head(s)>> \o InsertByKey(Tail(s), u)
       ELSE <<u>> \o s

\* sorted(us, key=lambda u: -u.num_confs): stable, ascending in the key
RECURSIVE SortedByConfsDesc(_)
SortedByConfsDesc(us) ==
  IF us = <<>> THEN <<>>
  ELSE InsertByKey(SortedByConfsDesc(SubSeq(us, 1, Len(us) - 1)), us[Len(us)])

\* int(x * 0.45) for a terminal height x >= 0
SubHeight(h) == (h * 45) \div 100

\* max_lines = sub_height - 2
MaxLines(h) == SubHeight(h) - 2

\* the rows the balance panel shows: sorted(...)[-max_lines:]
ShownUtxos(us, h) == SliceLast(SortedByConfsDesc(us), MaxLines(h))

\* total_bal: the sum over the rows shown
TotalBal(us, h) == SumAmounts(ShownUtxos(us, h))

\* position of address a in the ordered dict d (0 when absent)
DictIndex(d, a) ==
  IF \E i \in 1..Len(d) : d[i].address = a
  THEN CHOOSE i \in 1..Len(d) : d[i].address = a
  ELSE 0

\* d[u.address] = u on an insertion-ordered dict
DictSet(d, u) ==
  IF DictIndex(d, u.address) = 0 THEN Append(d, u)
  ELSE [d EXCEPT ![DictIndex(d, u.address)] = u]

\* dict.update(new) on an insertion-ordered dict
RECURSIVE DictUpdate(_, _)
DictUpdate(d, new) ==
  IF new = <<>> THEN d ELSE DictUpdate(DictSet(d, Head(new)), Tail(new))

\* the container is left as it was instead of being cleared
NotCleared(d) == d

\* utxos.clear()
Cleared(d) == <<>>

\* what the UTXO poller stores from a get_utxos response
UtxoWrite(cleared, new) == DictUpdate(cleared, new)

\* the maps get_utxos may return: the UTXOs of any set of addresses, by address
RECURSIVE UtxosOf(_)
UtxosOf(S) ==
  IF S = {} THEN <<>>
  ELSE LET a == CHOOSE x \in S : \A y \in S : x <= y
       IN <<Utxo(a)>> \o UtxosOf(S \ {a})
UtxoResponses == {UtxosOf(S) : S \in SUBSET UtxoAddrs}

(***************************************************************************)
(* HomeScene                                                               *)
(***************************************************************************)
\* a send item whose action is Quit
send_item_quits == [idx |-> 2, title |-> "send", action |-> Quit]

\* the four MenuItems of HomeScene.__init__
setup_item == [idx |-> 0, title |-> "start setup", action |-> GoSetup]
dashboard_item == [idx |-> 1, title |-> "dashboard", action |-> GoDashboard]
send_item == [idx |-> 2, title |-> "send", action |-> GoHome]
recieve_item == [idx |-> 3, title |-> "receive", action |-> GoHome]
mitems == <<setup_item, dashboard_item, send_item, recieve_item>>

\* the menu rows HomeScene.draw renders
ItemCount(wconfs) == IF wconfs # <<>> THEN 4 ELSE 1

\* k in [ord("q")]
IsQuitKey(key) == key \in {KEY_Q}
\* k in [curses.KEY_ENTER, 10, 13]
IsEnterKey(key) == key \in {KEY_ENTER, KEY_LF, KEY_CR}
IsDownKey(key) == key \in {KEY_DOWN, KEY_J}
IsUpKey(key) == key \in {KEY_UP, KEY_K}

\* the cursor after the navigation branch of HomeScene.draw
MoveCursor(key, idx) ==
  IF IsDownKey(key) /\ idx < Len(mitems) - 1 THEN idx + 1
  ELSE IF IsUpKey(key) /\ idx > 0 THEN idx - 1
  ELSE idx

VARIABLES
  wallet_configs,     \* the list of wallet configs handed to draw_menu
  action, k,          \* draw_menu's current action and last key
  cpc,                \* draw_menu's position: "loop", "dashboard", "done", "crashed"
  crash,              \* the exception that ended the process ("none" while alive)
  midx, mchoice,      \* HomeScene's cursor and selected item
  hk,                 \* the key HomeApply passed to HomeScene.draw (NO_CALL before)
  dpc,                \* DashboardScene.draw's position
  height,             \* self.height of the current render tick
  next_k,             \* _draw's next_k
  raising,            \* the exception DashboardScene.draw is handling ("none" if none)
  utxos,              \* DashboardScene.utxos, an insertion-ordered dict
  threads,            \* DashboardScene.threads
  threads_started,    \* DashboardScene.threads_started
  new_addrs,          \* DashboardScene.new_addrs
  blocks,             \* DashboardScene.blocks
  loop_count,         \* DashboardScene.loop_count
  conn_status,        \* DashboardScene.conn_status: "none", or "set" to either status line
  total_bal,          \* the running total last painted in the balance panel
  stop_threads_event, \* the module-level threading.Event
  utxos_lock,         \* holder of utxos_lock ("free" when not held)
  blocks_lock,        \* holder of blocks_lock ("free" when not held)
  upc, new_utxos,     \* _get_utxo_lines: position and its local new_utxos
  bpc, saw, last_saw, \* _get_new_blocks: position and its locals
  after_stop,         \* per poller: fetches begun while the stop event was set
  next_addr,          \* the node's count of addresses handed out by getnewaddress
  setup,              \* TermSetupScene.draw: its position (pc) and its locals
  setup_runs,         \* the number of times draw_menu has entered the onboarding
  config,             \* the config store: present, its wallets, written in this run
  node,               \* the node: wallets created, descriptors imported, scanning
  files,              \* the working directory: public.txt, the signed PSBT
  scan_thread,        \* the _run_scantxoutset thread: position and how its call ended
  rescan_threads      \* the _run_rescan threads started so far, each one's position

ctlVars == <<wallet_configs, action, k, cpc, crash>>
homeVars == <<midx, mchoice, hk>>
dashVars == <<dpc, height, next_k, raising, threads, threads_started, new_addrs,
              loop_count, conn_status, total_bal, next_addr>>
sharedVars == <<utxos, blocks, stop_threads_event, utxos_lock, blocks_lock>>
utxoPollerVars == <<upc, new_utxos>>
blockPollerVars == <<bpc, saw, last_saw>>
uiVars == <<homeVars, dpc, height, next_k, raising, threads, threads_started, new_addrs,
            loop_count, conn_status, total_bal, sharedVars, utxoPollerVars,
            blockPollerVars, after_stop>>
setupAll == <<setup, setup_runs, config, node, files, scan_thread, rescan_threads>>
vars == <<ctlVars, homeVars, dashVars, sharedVars, utxoPollerVars, blockPollerVars,
          after_stop, setupAll>>

\* the controller tests only the action, not the returned key
LoopContinuesOnAnyKey(kk, act) == act # Quit

\* the controller keeps looping after a scene returned (kk, act)
LoopContinues(kk, act) == ~(kk = KEY_Q \/ act = Quit) /\ act # Quit

\* HomeScene.draw(key), nk being the key its getch() reads when it gets that far
HomeSceneDraw(key, nk) ==
  /\ IF IsQuitKey(key)
     THEN /\ k' = NO_KEY
          /\ action' = Quit
          /\ UNCHANGED <<midx, mchoice>>
     ELSE IF IsEnterKey(key)
     THEN /\ k' = NO_KEY
          /\ action' = mchoice.action
          /\ UNCHANGED <<midx, mchoice>>
     ELSE /\ midx' = MoveCursor(key, midx)
          /\ mchoice' = mitems[midx' + 1]
          /\ k' = nk
          /\ action' = GoHome

InitController ==
  /\ wallet_configs \in WalletConfigLists
  /\ action = GoHome
  /\ k = INITIAL_KEY
  /\ cpc = "loop"
  /\ crash = "none"

\* HomeScene.__init__
InitHome ==
  /\ midx = 0
  /\ mchoice = setup_item
  /\ hk = NO_CALL

\* DashboardScene.__init__ and the module-level event and locks
InitDashboard ==
  /\ dpc = "idle"
  /\ height = 0
  /\ next_k = NO_KEY
  /\ raising = "none"
  /\ utxos = <<>>
  /\ threads = <<>>
  /\ threads_started = FALSE
  /\ new_addrs = <<>>
  /\ blocks = <<>>
  /\ loop_count = 0
  /\ conn_status = "none"
  /\ total_bal = 0
  /\ stop_threads_event = FALSE
  /\ utxos_lock = "free"
  /\ blocks_lock = "free"
  /\ upc = "idle"
  /\ new_utxos = <<>>
  /\ bpc = "idle"
  /\ saw = NoHash
  /\ last_saw = NoHash
  /\ after_stop = [t1 |-> 0, t2 |-> 0]
  /\ next_addr = 0

\* the locals of TermSetupScene.draw before it runs
SetupIdle ==
  [pc |-> "idle",
   ended_at |-> "none",
   chaininfo |-> [verificationprogress |-> 0, blocks |-> NO_BLOCKS],
   sync_polls |-> <<>>,
   pubfile |-> FALSE,
   wallet |-> "none",
   scan_result |-> [set |-> FALSE, unspents |-> <<>>],
   rescan_begin_height |-> NO_HEIGHT,
   last_wait |-> "none",
   back_to_back |-> FALSE,
   receive_addr1 |-> 0,
   sendtoaddr |-> 0,
   got |-> "none",
   confirm_broadcast |-> "none",
   got_utxo |-> FALSE,
   signed_wanted |-> FALSE,
   sent |-> FALSE,
   ready |-> FALSE]

\* the scene's config, the node and the working directory when the session starts
InitSetup ==
  /\ setup = SetupIdle
  /\ setup_runs = 0
  /\ config \in {[present |-> p, wallets |-> {wallet_configs[i] : i \in 1..Len(wallet_configs)},
                   written |-> FALSE] : p \in IF wallet_configs = <<>> THEN BOOLEAN ELSE {TRUE}}
  /\ node = [wallets |-> {}, imported |-> {}, scanning |-> FALSE, rescans |-> 0]
  /\ files = [public_txt |-> FALSE, signed |-> FALSE]
  /\ scan_thread = [pc |-> "idle", outcome |-> "none"]
  /\ rescan_threads = <<>>

Init == InitController /\ InitHome /\ InitDashboard /\ InitSetup

\* the addresses getnewaddress has handed out to a Dashboard some ticks into its
\* session, all of them still in self.new_addrs
HandedOut == <<1, 2, 3>>

\* a Dashboard session some ticks in, between two ticks: the user chose the dashboard
\* item, both pollers run, the UTXO poller has completed a poll, three addresses were
\* asked for, and draw_menu is about to dispatch the Dashboard again
InitMidSession ==
  /\ wallet_configs = <<"wallet1">>
  /\ action = GoDashboard
  /\ k \in {NO_KEY, KEY_N}
  /\ cpc = "loop"
  /\ crash = "none"
  /\ midx = 1
  /\ mchoice = dashboard_item
  /\ hk = NO_CALL
  /\ dpc = "idle"
  /\ height = 0
  /\ next_k = NO_KEY
  /\ raising = "none"
  /\ utxos \in UtxoResponses
  /\ threads = <<"t1", "t2">>
  /\ threads_started = TRUE
  /\ new_addrs = HandedOut
  /\ blocks = <<>>
  /\ loop_count = MaxTicks - 1
  /\ conn_status = "set"
  /\ total_bal = 0
  /\ stop_threads_event = FALSE
  /\ utxos_lock = "free"
  /\ blocks_lock = "free"
  /\ upc = "u_sleep"
  /\ new_utxos = utxos
  /\ bpc = "b_fetch"
  /\ saw = NoHash
  /\ last_saw = NoHash
  /\ after_stop = [t1 |-> 0, t2 |-> 0]
  /\ next_addr = Len(HandedOut)
  /\ InitSetup

\* draw_menu dispatching HomeScene
DispatchHome ==
  /\ cpc = "loop"
  /\ action = GoHome
  /\ \E nk \in Keys : HomeSceneDraw(k, nk)
  /\ cpc' = IF LoopContinues(k', action') THEN "loop" ELSE "done"
  /\ UNCHANGED <<setupAll, wallet_configs, crash, hk, dashVars, sharedVars, utxoPollerVars,
                 blockPollerVars, after_stop>>

\* HomeScene.draw applied to an arbitrary key
HomeApply ==
  /\ \E key \in Keys, nk \in Keys : HomeSceneDraw(key, nk) /\ hk' = key
  /\ UNCHANGED <<setupAll, wallet_configs, cpc, crash, dashVars, sharedVars, utxoPollerVars,
                 blockPollerVars, after_stop>>

(***************************************************************************)
(* DashboardScene                                                          *)
(***************************************************************************)
\* a thread that has returned or died
Terminated(t) ==
  IF t = "t1" THEN upc \in {"done", "crashed"} ELSE bpc \in {"done", "crashed"}

\* stop_threads sets the event and joins nothing
ThreadsToJoinNone(ths) == {}

\* the threads stop_threads joins
ThreadsToJoin(ths) == {ths[i] : i \in 1..Len(ths)}

\* stop_threads' join loop has got through every thread
JoinsDone(ths) == \A t \in ThreadsToJoin(ths) : Terminated(t)

\* the list is left as it is
StripNothing(addrs, us) == addrs

\* [a for a in addrs if a not in utxo_addrs]
RECURSIVE StripUsed(_, _)
StripUsed(addrs, us) ==
  IF addrs = <<>> THEN <<>>
  ELSE IF DictIndex(us, Head(addrs)) # 0 THEN StripUsed(Tail(addrs), us)
       ELSE <<Head(addrs)>> \o StripUsed(Tail(addrs), us)

\* positions of _draw at which a statement of the render may raise
RenderPcs == {"d_start1", "d_start2", "d_lock1", "d_unlock1", "d_lock2", "d_unlock2",
              "d_lock3", "d_unlock3"}

\* the with-statement goes into its block whoever holds the lock
AcquirableAlways(lock) == TRUE

\* with lock: a thread gets past the acquire only when no thread holds the lock
Acquirable(lock) == lock = "free"

\* an exception leaves the with-block without giving the lock back
NotReleased(lock) == lock

\* the lock as left by the with-statement when the render thread leaves it
Released(lock) == IF lock = "render" THEN "free" ELSE lock

\* DashboardScene.draw returning (kk, act) to draw_menu
DashReturn(kk, act) ==
  /\ k' = kk
  /\ action' = act
  /\ cpc' = IF LoopContinues(kk, act) THEN "loop" ELSE "done"
  /\ dpc' = "idle"
  /\ next_k' = NO_KEY
  /\ height' = 0
  /\ UNCHANGED <<crash, raising>>

\* draw_menu clears the screen and dispatches the Dashboard; _draw reads the size
\* and the first wallet
DashBegin ==
  /\ cpc = "loop"
  /\ action = GoDashboard
  /\ cpc' = "dashboard"
  /\ \E h \in Heights : height' = h
  /\ total_bal' = 0
  /\ IF wallet_configs = <<>>
     THEN /\ raising' = "IndexError"
          /\ dpc' = "d_stop"
     ELSE /\ raising' = "none"
          /\ dpc' = "d_start1"
  /\ UNCHANGED <<setupAll, wallet_configs, action, k, crash, homeVars, next_k, threads,
                 threads_started, new_addrs, loop_count, conn_status,
                 next_addr, sharedVars, utxoPollerVars, blockPollerVars, after_stop>>

\* start_threads goes on to start threads on every call
NeverStarted(started) == FALSE

\* if self.threads_started: return
AlreadyStarted(started) == started

\* start_threads: return if started, else start and record the UTXO poller
DashStart1 ==
  /\ dpc = "d_start1"
  /\ IF AlreadyStarted(threads_started)
     THEN /\ dpc' = "d_lock1"
          /\ UNCHANGED <<threads, upc>>
     ELSE /\ upc' = "u_start"
          /\ threads' = Append(threads, "t1")
          /\ dpc' = "d_start2"
  /\ UNCHANGED <<setupAll, ctlVars, homeVars, height, next_k, raising, threads_started,
                 new_addrs, loop_count, conn_status, total_bal, next_addr, sharedVars,
                 new_utxos, blockPollerVars, after_stop>>

\* start_threads: start and record the block poller, set threads_started
DashStart2 ==
  /\ dpc = "d_start2"
  /\ bpc' = "b_start"
  /\ threads' = Append(threads, "t2")
  /\ threads_started' = TRUE
  /\ dpc' = "d_lock1"
  /\ UNCHANGED <<setupAll, ctlVars, homeVars, height, next_k, raising, new_addrs, loop_count,
                 conn_status, total_bal, next_addr, sharedVars, utxoPollerVars, saw,
                 last_saw, after_stop>>

\* with utxos_lock: the balance panel, its rows and running total
DashLock1Balance ==
  /\ dpc = "d_lock1"
  /\ Acquirable(utxos_lock)
  /\ utxos_lock' = "render"
  /\ total_bal' = TotalBal(utxos, height)
  /\ dpc' = "d_unlock1"
  /\ UNCHANGED <<setupAll, ctlVars, homeVars, height, next_k, raising, threads, threads_started,
                 new_addrs, loop_count, conn_status, next_addr, utxos, blocks,
                 stop_threads_event, blocks_lock, utxoPollerVars, blockPollerVars,
                 after_stop>>

\* leave the with-block; on "n" ask the node for one new address
DashUnlock1NewAddr ==
  /\ dpc = "d_unlock1"
  /\ utxos_lock' = "free"
  /\ IF k = KEY_N /\ Len(new_addrs) < MAX_NEW_ADDRS
     THEN /\ new_addrs' = Append(new_addrs, next_addr + 1)
          /\ next_addr' = next_addr + 1
     ELSE UNCHANGED <<new_addrs, next_addr>>
  /\ dpc' = "d_lock2"
  /\ UNCHANGED <<setupAll, ctlVars, homeVars, height, next_k, raising, threads, threads_started,
                 loop_count, conn_status, total_bal, utxos, blocks, stop_threads_event,
                 blocks_lock, utxoPollerVars, blockPollerVars, after_stop>>

\* with utxos_lock: strip out used addresses, paint the address panel
DashLock2Filter ==
  /\ dpc = "d_lock2"
  /\ Acquirable(utxos_lock)
  /\ utxos_lock' = "render"
  /\ new_addrs' = StripUsed(new_addrs, utxos)
  /\ dpc' = "d_unlock2"
  /\ UNCHANGED <<setupAll, ctlVars, homeVars, height, next_k, raising, threads, threads_started,
                 loop_count, conn_status, total_bal, next_addr, utxos, blocks,
                 stop_threads_event, blocks_lock, utxoPollerVars, blockPollerVars,
                 after_stop>>

\* leave the with-block; refresh the cached connection status when due
DashUnlock2Conn ==
  /\ dpc = "d_unlock2"
  /\ utxos_lock' = "free"
  /\ IF conn_status = "none" \/ loop_count % CONN_REFRESH_TICKS = 0
     THEN conn_status' = "set"
     ELSE UNCHANGED conn_status
  /\ dpc' = "d_lock3"
  /\ UNCHANGED <<setupAll, ctlVars, homeVars, height, next_k, raising, threads, threads_started,
                 new_addrs, loop_count, total_bal, next_addr, utxos, blocks,
                 stop_threads_event, blocks_lock, utxoPollerVars, blockPollerVars,
                 after_stop>>

\* with blocks_lock: paint the most recent blocks (reads self.blocks)
DashLock3Blocks ==
  /\ dpc = "d_lock3"
  /\ Acquirable(blocks_lock)
  /\ blocks_lock' = "render"
  /\ dpc' = "d_unlock3"
  /\ UNCHANGED <<setupAll, ctlVars, homeVars, height, next_k, raising, threads, threads_started,
                 new_addrs, loop_count, conn_status, total_bal, next_addr, utxos, blocks,
                 stop_threads_event, utxos_lock, utxoPollerVars, blockPollerVars,
                 after_stop>>

\* the keys the user may press at this tick
TickKeys ==
  IF loop_count + 1 >= MaxTicks THEN {KEY_Q}
  ELSE IF next_addr >= MaxAddrs THEN DashKeys \ {KEY_N}
  ELSE DashKeys

\* the quit key was read
QuitRead(nk) == nk = KEY_Q

\* leave the with-block, refresh, getch with timeout, count the tick, return
DashUnlock3Getch ==
  /\ dpc = "d_unlock3"
  /\ blocks_lock' = "free"
  /\ loop_count' = loop_count + 1
  /\ \E nk \in TickKeys :
       IF QuitRead(nk)
       THEN /\ next_k' = nk
            /\ dpc' = "d_stop"
            /\ UNCHANGED <<ctlVars, raising, height>>
       ELSE /\ DashReturn(nk, GoDashboard)
            /\ UNCHANGED wallet_configs
  /\ UNCHANGED <<setupAll, homeVars, threads, threads_started, new_addrs, conn_status,
                 total_bal, next_addr, utxos, blocks, stop_threads_event, utxos_lock,
                 utxoPollerVars, blockPollerVars, after_stop>>

\* a statement of _draw raises: the with-block releases its lock, draw's handler runs
RenderError ==
  /\ dpc \in RenderPcs
  /\ raising' = "RenderError"
  /\ utxos_lock' = Released(utxos_lock)
  /\ blocks_lock' = Released(blocks_lock)
  /\ dpc' = "d_stop"
  /\ UNCHANGED <<setupAll, ctlVars, homeVars, height, next_k, threads, threads_started, new_addrs,
                 loop_count, conn_status, total_bal, next_addr, utxos, blocks,
                 stop_threads_event, utxoPollerVars, blockPollerVars, after_stop>>

\* stop_threads: stop_threads_event.set()
DashStop ==
  /\ dpc = "d_stop"
  /\ stop_threads_event' = TRUE
  /\ dpc' = "d_join"
  /\ UNCHANGED <<setupAll, ctlVars, homeVars, height, next_k, raising, threads, threads_started,
                 new_addrs, loop_count, conn_status, total_bal, next_addr, utxos, blocks,
                 utxos_lock, blocks_lock, utxoPollerVars, blockPollerVars, after_stop>>

\* draw's handler ends without raising: the error is dropped
Swallowed(r) == FALSE

\* the raise that ends draw's exception handler: the error in flight goes on
Reraised(r) == r # "none"

\* stop_threads: every join has returned; draw re-raises or _draw returns
DashJoin ==
  /\ dpc = "d_join"
  /\ JoinsDone(threads)
  /\ IF Reraised(raising)
     THEN /\ cpc' = "crashed"
          /\ crash' = raising
          /\ dpc' = "idle"
          /\ UNCHANGED <<k, action, next_k, raising, height>>
     ELSE DashReturn(next_k, GoDashboard)
  /\ UNCHANGED <<setupAll, wallet_configs, homeVars, threads, threads_started, new_addrs,
                 loop_count, conn_status, total_bal, next_addr, sharedVars,
                 utxoPollerVars, blockPollerVars, after_stop>>

(***************************************************************************)
(* Background pollers                                                      *)
(***************************************************************************)
\* the poller never tests the event
PollerNeverStops(ev) == FALSE

\* the poller leaves its loop after the sleep
PollerStops(ev) == ev

\* the Block recorded for tip h from getblockstats(h)
Block(h) == [hash |-> h, height |-> 100 + h]

\* the block poller records every tip it reads
TipAlwaysNew(s, last) == TRUE

\* the block poller records the tip it saw
TipIsNew(s, last) == s # last

\* controller.get_utxos(rpcw) returns, or raises and ends the thread; the thread is
\* at the top of while True, just started ("u_start") or after the test of the stop
\* event at the bottom of the loop ("u_fetch")
UtxoFetch ==
  /\ upc \in {"u_start", "u_fetch"}
  /\ after_stop' = [after_stop EXCEPT !.t1 = @ + (IF stop_threads_event THEN 1 ELSE 0)]
  /\ \/ \E r \in UtxoResponses :
          /\ new_utxos' = r
          /\ upc' = "u_lock"
     \/ /\ upc' = "crashed"
        /\ UNCHANGED new_utxos
  /\ UNCHANGED <<setupAll, ctlVars, homeVars, dashVars, sharedVars, blockPollerVars>>

\* with utxos_lock: utxos.clear()
UtxoLockClear ==
  /\ upc = "u_lock"
  /\ Acquirable(utxos_lock)
  /\ utxos_lock' = "t1"
  /\ utxos' = Cleared(utxos)
  /\ upc' = "u_update"
  /\ UNCHANGED <<setupAll, ctlVars, homeVars, dashVars, blocks, stop_threads_event, blocks_lock,
                 new_utxos, blockPollerVars, after_stop>>

\* utxos.update(new_utxos), and the with-block ends
UtxoUpdate ==
  /\ upc = "u_update"
  /\ utxos' = UtxoWrite(utxos, new_utxos)
  /\ utxos_lock' = "free"
  /\ upc' = "u_sleep"
  /\ UNCHANGED <<setupAll, ctlVars, homeVars, dashVars, blocks, stop_threads_event, blocks_lock,
                 new_utxos, blockPollerVars, after_stop>>

\* time.sleep(1), then the stop event is tested
UtxoSleep ==
  /\ upc = "u_sleep"
  /\ upc' = IF PollerStops(stop_threads_event) THEN "done" ELSE "u_fetch"
  /\ UNCHANGED <<setupAll, ctlVars, homeVars, dashVars, sharedVars, new_utxos, blockPollerVars,
                 after_stop>>

\* the tips the node may report: the tip stops changing after MaxBlocks tips
TipsNow == IF Len(blocks) < MaxBlocks THEN Hashes ELSE {last_saw}

\* rpc.getbestblockhash() and, for a new tip, rpc.getblockstats(saw) return, or one
\* of them raises and ends the thread
BlockFetch ==
  /\ bpc \in {"b_start", "b_fetch"}
  /\ after_stop' = [after_stop EXCEPT !.t2 = @ + (IF stop_threads_event THEN 1 ELSE 0)]
  /\ \/ \E h \in TipsNow :
          /\ saw' = h
          /\ bpc' = IF TipIsNew(h, last_saw) THEN "b_lock" ELSE "b_sleep"
     \/ /\ bpc' = "crashed"
        /\ UNCHANGED saw
  /\ UNCHANGED <<setupAll, ctlVars, homeVars, dashVars, sharedVars, utxoPollerVars, last_saw>>

\* with blocks_lock:
BlockLock ==
  /\ bpc = "b_lock"
  /\ Acquirable(blocks_lock)
  /\ blocks_lock' = "t2"
  /\ bpc' = "b_append"
  /\ UNCHANGED <<setupAll, ctlVars, homeVars, dashVars, utxos, blocks, stop_threads_event,
                 utxos_lock, utxoPollerVars, saw, last_saw, after_stop>>

\* blocks.append(Block(...)), the with-block ends, last_saw = saw
BlockAppend ==
  /\ bpc = "b_append"
  /\ blocks' = Append(blocks, Block(saw))
  /\ blocks_lock' = "free"
  /\ last_saw' = saw
  /\ bpc' = "b_sleep"
  /\ UNCHANGED <<setupAll, ctlVars, homeVars, dashVars, utxos, stop_threads_event, utxos_lock,
                 utxoPollerVars, saw, after_stop>>

\* time.sleep(1), then the stop event is tested
BlockSleep ==
  /\ bpc = "b_sleep"
  /\ bpc' = IF PollerStops(stop_threads_event) THEN "done" ELSE "b_fetch"
  /\ UNCHANGED <<setupAll, ctlVars, homeVars, dashVars, sharedVars, utxoPollerVars, saw, last_saw,
                 after_stop>>

UtxoPoller == UtxoFetch \/ UtxoLockClear \/ UtxoUpdate \/ UtxoSleep
BlockPoller == BlockFetch \/ BlockLock \/ BlockAppend \/ BlockSleep

(***************************************************************************)
(* TermSetupScene: the onboarding sequence                                 *)
(***************************************************************************)
\* except Exception: pass -- chaininfo is left as it was
KeptOnRaise(ci) == ci

\* the sync loop is left as soon as any progress has been reported
SyncDoneOnAnyProgress(ci) == ci.verificationprogress > 0

\* the negation of the sync loop's condition verificationprogress < 0.999
SyncDone(ci) == ~(ci.verificationprogress < SYNC_THRESHOLD)

\* what a getblockchaininfo call may do at this poll: report a progress or raise
SyncOutcomes(polls) ==
  IF Len(polls) + 1 >= MaxPolls
  THEN {v \in ProgressReports : v >= SYNC_THRESHOLD}
  ELSE ProgressReports \cup {POLL_RAISED}

\* min([i["height"] for i in unspents]), for a non-empty list
MinHeight(unspents) ==
  CHOOSE h \in {unspents[i].height : i \in 1..Len(unspents)} :
    \A j \in 1..Len(unspents) : h <= unspents[j].height

\* the process ends inside the onboarding: sys.exit(1) or an uncaught exception
ProcessEnds(how, why) ==
  /\ cpc' = how
  /\ crash' = why
  /\ setup' = [setup EXCEPT !.pc = "ended", !.ended_at = setup.pc]
  /\ UNCHANGED <<wallet_configs, action, k>>

\* a poll of a wait condition: it follows another poll with no sleep between
Polled(su) == [su EXCEPT !.last_wait = "poll",
                         !.back_to_back = @ \/ su.last_wait = "poll"]

\* draw_menu dispatches the onboarding sequence
DispatchSetup ==
  /\ cpc = "loop"
  /\ action = GoSetup
  /\ setup_runs < MaxSetupRuns
  /\ setup_runs' = setup_runs + 1
  /\ cpc' = "setup"
  /\ setup' = [SetupIdle EXCEPT !.pc = "s_discover"]
  /\ config' = [config EXCEPT !.written = FALSE]
  /\ UNCHANGED <<uiVars, wallet_configs, action, k, crash, next_addr, node, files,
                 scan_thread, rescan_threads>>

\* discover_rpc: found, or sys.exit(1)
SetupDiscover ==
  /\ setup.pc = "s_discover"
  /\ \/ /\ setup' = [setup EXCEPT !.pc = "s_config"]
        /\ UNCHANGED ctlVars
     \/ ProcessEnds("exited", "SystemExit")
  /\ UNCHANGED <<uiVars, next_addr, setup_runs, config, node, files, scan_thread,
                 rescan_threads>>

\* create the config when there is none; the hardware checkpoint
SetupConfig ==
  /\ setup.pc = "s_config"
  /\ config' = IF config.present THEN config
               ELSE [present |-> TRUE, wallets |-> {}, written |-> config.written]
  /\ setup' = [setup EXCEPT !.pc = "s_sync"]
  /\ UNCHANGED <<uiVars, ctlVars, next_addr, setup_runs, node, files, scan_thread,
                 rescan_threads>>

\* one pass of the sync loop: getblockchaininfo returns or raises
SyncPoll ==
  /\ setup.pc = "s_sync"
  /\ ~SyncDone(setup.chaininfo)
  /\ \E r \in SyncOutcomes(setup.sync_polls), h \in ChainHeights :
       setup' = [Polled(setup) EXCEPT
                   !.chaininfo = IF r = POLL_RAISED THEN KeptOnRaise(@)
                                 ELSE [verificationprogress |-> r, blocks |-> h],
                   !.sync_polls = Append(@, r)]
  /\ UNCHANGED <<uiVars, ctlVars, next_addr, setup_runs, config, node, files,
                 scan_thread, rescan_threads>>

\* the sync loop's condition is false: report the height, go on to the import
SyncExit ==
  /\ setup.pc = "s_sync"
  /\ SyncDone(setup.chaininfo)
  /\ IF setup.chaininfo.blocks = NO_BLOCKS
     THEN ProcessEnds("crashed", "KeyError")
     ELSE /\ setup' = [setup EXCEPT !.pc = "s_import", !.last_wait = "none"]
          /\ UNCHANGED ctlVars
  /\ UNCHANGED <<uiVars, next_addr, setup_runs, config, node, files, scan_thread,
                 rescan_threads>>

\* offer a file explorer when public.txt is not there yet; pubfile = None
ImportCheck ==
  /\ setup.pc = "s_import"
  /\ setup' = [setup EXCEPT !.pc = "s_import_spin", !.pubfile = FALSE]
  /\ UNCHANGED <<uiVars, ctlVars, next_addr, setup_runs, config, node, files,
                 scan_thread, rescan_threads>>

\* spin and time.sleep(0.1)
ImportSleep ==
  /\ setup.pc = "s_import_spin"
  /\ setup' = [setup EXCEPT !.pc = "s_import_poll", !.last_wait = "sleep"]
  /\ UNCHANGED <<uiVars, ctlVars, next_addr, setup_runs, config, node, files,
                 scan_thread, rescan_threads>>

\* the import wait is left after one pass, whether or not the file was seen
ImportWaitOverAtOnce(pubfile) == TRUE

\* the negation of the import loop's condition: while not pubfile
ImportWaitOver(pubfile) == pubfile

\* if pubfilepath.exists(): pubfile = pubfilepath; the loop ends when it is set
ImportPoll ==
  /\ setup.pc = "s_import_poll"
  /\ setup' = [Polled(setup) EXCEPT
                 !.pubfile = files.public_txt,
                 !.pc = IF ImportWaitOver(files.public_txt) THEN "s_parse"
                        ELSE "s_import_spin"]
  /\ UNCHANGED <<uiVars, ctlVars, next_addr, setup_runs, config, node, files,
                 scan_thread, rescan_threads>>

\* an exception of parse_cc_public is passed over and the sequence goes on
ParseNeverFatal(parsed) == FALSE

\* except Exception: ... sys.exit(1)
ParseFatal(parsed) == ~parsed

\* parse_cc_public: a wallet, or sys.exit(1) on any exception
SetupParse ==
  /\ setup.pc = "s_parse"
  /\ \E parsed \in BOOLEAN :
       IF ParseFatal(parsed)
       THEN ProcessEnds("exited", "SystemExit")
       ELSE /\ setup' = [setup EXCEPT !.pc = "s_register", !.last_wait = "none",
                                      !.wallet = IF parsed THEN "coldcard" ELSE "none"]
            /\ UNCHANGED ctlVars
  /\ UNCHANGED <<uiVars, next_addr, setup_runs, config, node, files, scan_thread,
                 rescan_threads>>

\* config.add_new_wallet(wallet); config.write()
SetupRegister ==
  /\ setup.pc = "s_register"
  /\ config' = [config EXCEPT !.wallets = @ \cup {setup.wallet}, !.written = TRUE]
  /\ setup' = [setup EXCEPT !.pc = "s_create"]
  /\ UNCHANGED <<uiVars, ctlVars, next_addr, setup_runs, node, files, scan_thread,
                 rescan_threads>>

\* rpc_wallet_create and importmulti: both succeed, or one raises uncaught
SetupCreate ==
  /\ setup.pc = "s_create"
  /\ \/ /\ node' = [node EXCEPT !.wallets = @ \cup {setup.wallet},
                                !.imported = @ \cup {setup.wallet}]
        /\ setup' = [setup EXCEPT !.pc = "s_scan_start"]
        /\ UNCHANGED ctlVars
     \/ /\ ProcessEnds("crashed", "RpcError")
        /\ UNCHANGED node
  /\ UNCHANGED <<uiVars, next_addr, setup_runs, config, files, scan_thread,
                 rescan_threads>>

\* scan_result = {}; the scan thread is started
SetupScanStart ==
  /\ setup.pc = "s_scan_start"
  /\ scan_thread' = [pc |-> "running", outcome |-> "none"]
  /\ setup' = [setup EXCEPT !.pc = "s_scan_poll",
                            !.scan_result = [set |-> FALSE, unspents |-> <<>>]]
  /\ UNCHANGED <<uiVars, ctlVars, next_addr, setup_runs, config, node, files,
                 rescan_threads>>

\* _run_scantxoutset: the call returns and the result is stored, or it raises
\* socket.timeout (logged) or another exception, and the thread ends
ScanThreadRun ==
  /\ scan_thread.pc = "running"
  /\ \/ \E r \in ScanResults :
          /\ setup' = [setup EXCEPT !.scan_result = [set |-> TRUE, unspents |-> r]]
          /\ scan_thread' = [pc |-> "dead", outcome |-> "result"]
     \/ \E o \in {"timeout", "error"} :
          /\ scan_thread' = [pc |-> "dead", outcome |-> o]
          /\ UNCHANGED setup
  /\ UNCHANGED <<uiVars, ctlVars, next_addr, setup_runs, config, node, files,
                 rescan_threads>>

\* while scan_thread.is_alive():
ScanWaitPoll ==
  /\ setup.pc = "s_scan_poll"
  /\ setup' = [Polled(setup) EXCEPT
                 !.pc = IF scan_thread.pc = "running" THEN "s_scan_sleep"
                        ELSE "s_scan_read"]
  /\ UNCHANGED <<uiVars, ctlVars, next_addr, setup_runs, config, node, files,
                 scan_thread, rescan_threads>>

\* spin and time.sleep(0.2)
ScanWaitSleep ==
  /\ setup.pc = "s_scan_sleep"
  /\ setup' = [setup EXCEPT !.pc = "s_scan_poll", !.last_wait = "sleep"]
  /\ UNCHANGED <<uiVars, ctlVars, next_addr, setup_runs, config, node, files,
                 scan_thread, rescan_threads>>

\* scan_result["result"]["unspents"], the balance, min() of the heights
SetupScanRead ==
  /\ setup.pc = "s_scan_read"
  /\ IF ~setup.scan_result.set
     THEN ProcessEnds("crashed", "KeyError")
     ELSE IF setup.scan_result.unspents = <<>>
     THEN ProcessEnds("crashed", "ValueError")
     ELSE /\ setup' = [setup EXCEPT
                         !.pc = "s_rescan_start",
                         !.last_wait = "none",
                         !.rescan_begin_height = MinHeight(setup.scan_result.unspents)]
          /\ UNCHANGED ctlVars
  /\ UNCHANGED <<uiVars, next_addr, setup_runs, config, node, files, scan_thread,
                 rescan_threads>>

\* the rescan thread is started (daemon, never joined); time.sleep(2)
SetupRescanStart ==
  /\ setup.pc = "s_rescan_start"
  /\ rescan_threads' = Append(rescan_threads, "start")
  /\ setup' = [setup EXCEPT !.pc = "s_rescan_poll", !.last_wait = "sleep"]
  /\ UNCHANGED <<uiVars, ctlVars, next_addr, setup_runs, config, node, files,
                 scan_thread>>

\* _run_rescan: rescanblockchain reaches the node, which starts scanning, or is
\* refused because the node is scanning already
RescanThreadCall ==
  \E i \in 1..Len(rescan_threads) :
    /\ rescan_threads[i] = "start"
    /\ IF node.scanning
       THEN /\ rescan_threads' = [rescan_threads EXCEPT ![i] = "dead"]
            /\ UNCHANGED node
       ELSE /\ rescan_threads' = [rescan_threads EXCEPT ![i] = "calling"]
            /\ node' = [node EXCEPT !.scanning = TRUE]
    /\ UNCHANGED <<uiVars, ctlVars, next_addr, setup, setup_runs, config, files,
                   scan_thread>>

\* _run_rescan: the call returns, or raises socket.timeout (logged); the thread ends
RescanThreadEnd ==
  \E i \in 1..Len(rescan_threads) :
    /\ rescan_threads[i] = "calling"
    /\ rescan_threads' = [rescan_threads EXCEPT ![i] = "dead"]
    /\ UNCHANGED <<uiVars, ctlVars, next_addr, setup, setup_runs, config, node, files,
                   scan_thread>>

\* the node finishes the rescan it was asked for
NodeRescanDone ==
  /\ node.scanning
  /\ node' = [node EXCEPT !.scanning = FALSE, !.rescans = @ + 1]
  /\ UNCHANGED <<uiVars, ctlVars, next_addr, setup, setup_runs, config, files,
                 scan_thread, rescan_threads>>

\* scan_info = getwalletinfo()["scanning"]; the loop ends when it is false
RescanPoll ==
  /\ setup.pc = "s_rescan_poll"
  /\ setup' = IF node.scanning
              THEN [Polled(setup) EXCEPT !.pc = "s_rescan_sleep"]
              ELSE [Polled(setup) EXCEPT !.pc = "s_test_prompt", !.ready = TRUE]
  /\ UNCHANGED <<uiVars, ctlVars, next_addr, setup_runs, config, node, files,
                 scan_thread, rescan_threads>>

\* spin and time.sleep(0.5)
RescanSleep ==
  /\ setup.pc = "s_rescan_sleep"
  /\ setup' = [setup EXCEPT !.pc = "s_rescan_poll", !.last_wait = "sleep"]
  /\ UNCHANGED <<uiVars, ctlVars, next_addr, setup_runs, config, node, files,
                 scan_thread, rescan_threads>>

\* "do you want to perform some test transactions?": declined, or a first address
SetupTestPrompt ==
  /\ setup.pc = "s_test_prompt"
  /\ \/ /\ setup' = [setup EXCEPT !.pc = "s_finish", !.last_wait = "none", !.got = "n"]
        /\ UNCHANGED next_addr
     \/ /\ next_addr + 2 <= MaxAddrs
        /\ next_addr' = next_addr + 1
        /\ setup' = [setup EXCEPT !.pc = "s_recv_poll", !.last_wait = "none",
                                  !.got = "y", !.receive_addr1 = next_addr + 1]
  /\ UNCHANGED <<uiVars, ctlVars, setup_runs, config, node, files, scan_thread,
                 rescan_threads>>

\* utxos = get_utxos(rpcw); got_utxo = utxos.get(receive_addr1)
RecvPoll ==
  /\ setup.pc = "s_recv_poll"
  /\ \E r \in UtxoResponses :
       setup' = [Polled(setup) EXCEPT
                   !.pc = "s_recv_sleep",
                   !.got_utxo = DictIndex(r, setup.receive_addr1) # 0]
  /\ UNCHANGED <<uiVars, ctlVars, next_addr, setup_runs, config, node, files,
                 scan_thread, rescan_threads>>

\* time.sleep(1); the loop ends when got_utxo is set
RecvSleep ==
  /\ setup.pc = "s_recv_sleep"
  /\ setup' = [setup EXCEPT !.last_wait = "sleep",
                            !.pc = IF setup.got_utxo THEN "s_prepare" ELSE "s_recv_poll"]
  /\ UNCHANGED <<uiVars, ctlVars, next_addr, setup_runs, config, node, files,
                 scan_thread, rescan_threads>>

\* a second address, prepare_send: a new .psbt file, whose signed sibling is awaited
SetupPrepare ==
  /\ setup.pc = "s_prepare"
  /\ next_addr' = next_addr + 1
  /\ files' = [files EXCEPT !.signed = FALSE]
  /\ setup' = [setup EXCEPT !.pc = "s_signed_poll", !.last_wait = "none",
                            !.sendtoaddr = next_addr + 1, !.signed_wanted = TRUE]
  /\ UNCHANGED <<uiVars, ctlVars, setup_runs, config, node, scan_thread, rescan_threads>>

\* while not Path(signed_filename).exists():
SignedPoll ==
  /\ setup.pc = "s_signed_poll"
  /\ setup' = [Polled(setup) EXCEPT
                 !.pc = IF files.signed THEN "s_confirm" ELSE "s_signed_sleep"]
  /\ UNCHANGED <<uiVars, ctlVars, next_addr, setup_runs, config, node, files,
                 scan_thread, rescan_threads>>

\* spin and time.sleep(0.5)
SignedSleep ==
  /\ setup.pc = "s_signed_sleep"
  /\ setup' = [setup EXCEPT !.pc = "s_signed_poll", !.last_wait = "sleep"]
  /\ UNCHANGED <<uiVars, ctlVars, next_addr, setup_runs, config, node, files,
                 scan_thread, rescan_threads>>

\* the transaction is sent whatever confirm_broadcast returned
SubmitsUnconfirmed(ok) == TRUE

\* rpcw.sendrawtransaction(txhex) is reached only past the return of the refusal
Submits(ok) == ok

\* psbt_to_tx_hex; confirm_broadcast: refused, or sendrawtransaction
SetupConfirm ==
  /\ setup.pc = "s_confirm"
  /\ \E ok \in BOOLEAN :
       setup' = [setup EXCEPT !.last_wait = "none",
                              !.confirm_broadcast = IF ok THEN "yes" ELSE "no",
                              !.sent = Submits(ok),
                              !.pc = IF ok THEN "s_mempool" ELSE "s_finish"]
  /\ UNCHANGED <<uiVars, ctlVars, next_addr, setup_runs, config, node, files,
                 scan_thread, rescan_threads>>

\* utxos = get_utxos(rpcw); got_utxo = utxos.get(sendtoaddr); no sleep in this loop
MempoolPoll ==
  /\ setup.pc = "s_mempool"
  /\ \E r \in UtxoResponses :
       setup' = [Polled(setup) EXCEPT
                   !.got_utxo = DictIndex(r, setup.sendtoaddr) # 0,
                   !.pc = IF DictIndex(r, setup.sendtoaddr) # 0 THEN "s_finish"
                          ELSE "s_mempool"]
  /\ UNCHANGED <<uiVars, ctlVars, next_addr, setup_runs, config, node, files,
                 scan_thread, rescan_threads>>

\* draw_menu leaves the action as it was after the onboarding returned
AfterSetupSameAction == [k |-> NO_KEY, action |-> GoSetup]

\* draw_menu after term_setup.draw(k): k = -1; action = GoHome
AfterSetup == [k |-> NO_KEY, action |-> GoHome]

\* finish() returns (-1, GoHome); draw_menu sets k = -1 and action = GoHome
SetupFinish ==
  /\ setup.pc = "s_finish"
  /\ setup' = SetupIdle
  /\ scan_thread' = [pc |-> "idle", outcome |-> "none"]
  /\ k' = AfterSetup.k
  /\ action' = AfterSetup.action
  /\ cpc' = IF LoopContinues(k', action') THEN "loop" ELSE "done"
  /\ UNCHANGED <<uiVars, wallet_configs, crash, next_addr, setup_runs, config, node,
                 files, rescan_threads>>

\* the user copies public.txt into the working directory
PlacePublicTxt ==
  /\ cpc = "setup"
  /\ ~files.public_txt
  /\ files' = [files EXCEPT !.public_txt = TRUE]
  /\ UNCHANGED <<uiVars, ctlVars, next_addr, setup, setup_runs, config, node,
                 scan_thread, rescan_threads>>

\* the user brings back the signed PSBT
SignPsbt ==
  /\ setup.signed_wanted
  /\ ~files.signed
  /\ files' = [files EXCEPT !.signed = TRUE]
  /\ UNCHANGED <<uiVars, ctlVars, next_addr, setup, setup_runs, config, node,
                 scan_thread, rescan_threads>>

NextSetup ==
  \/ DispatchSetup \/ SetupDiscover \/ SetupConfig
  \/ SyncPoll \/ SyncExit
  \/ ImportCheck \/ ImportSleep \/ ImportPoll \/ SetupParse
  \/ SetupRegister \/ SetupCreate
  \/ SetupScanStart \/ ScanThreadRun \/ ScanWaitPoll \/ ScanWaitSleep \/ SetupScanRead
  \/ SetupRescanStart \/ RescanThreadCall \/ RescanThreadEnd \/ NodeRescanDone
  \/ RescanPoll \/ RescanSleep
  \/ SetupTestPrompt \/ RecvPoll \/ RecvSleep \/ SetupPrepare
  \/ SignedPoll \/ SignedSleep \/ SetupConfirm \/ MempoolPoll \/ SetupFinish
  \/ PlacePublicTxt \/ SignPsbt

NextHome == DispatchHome

NextDashboard ==
  \/ DashBegin \/ DashStart1 \/ DashStart2
  \/ DashLock1Balance \/ DashUnlock1NewAddr
  \/ DashLock2Filter \/ DashUnlock2Conn
  \/ DashLock3Blocks \/ DashUnlock3Getch
  \/ RenderError \/ DashStop \/ DashJoin

NextPollers ==
  \/ UtxoFetch \/ UtxoLockClear \/ UtxoUpdate \/ UtxoSleep
  \/ BlockFetch \/ BlockLock \/ BlockAppend \/ BlockSleep

\* the session from draw_menu's start, through Home, into the Dashboard
SpecDashboard == Init /\ [][NextHome \/ NextDashboard \/ NextPollers]_vars

\* the session from draw_menu's start, through Home, into the onboarding sequence
SpecSetup == Init /\ [][NextHome \/ NextSetup]_vars

\* the whole program
Spec == Init /\ [][NextHome \/ NextDashboard \/ NextPollers \/ NextSetup]_vars

\* the pollers' threads are scheduled, and their RPC calls return or raise
FairSpecDashboard == SpecDashboard /\ WF_vars(UtxoPoller) /\ WF_vars(BlockPoller)

SpecHome == Init /\ [][HomeApply]_vars

\* the ticks of a Dashboard session that is already under way
NextMidSession ==
  \/ DashBegin \/ DashStart1
  \/ DashLock1Balance \/ DashUnlock1NewAddr
  \/ DashLock2Filter \/ DashUnlock2Conn
  \/ DashLock3Blocks \/ DashUnlock3Getch
  \/ RenderError \/ DashStop \/ DashJoin
  \/ NextPollers

SpecMidSession == InitMidSession /\ [][NextMidSession]_vars

(***************************************************************************)
(* Properties                                                              *)
(***************************************************************************)
\* a poller thread that has been started and has neither returned nor died
Running(t) ==
  IF t = "t1" THEN upc \notin {"idle", "done", "crashed"}
  ELSE bpc \notin {"idle", "done", "crashed"}

\* the Dashboard read the quit key, stopped its threads and returned
DashQuitReturned == stop_threads_event /\ raising = "none" /\ dpc = "idle"

\* C1 as stated: after the quit key is read in the Dashboard the controller goes on,
\* with Home as the next scene to dispatch.
C1_QuitReturnsToHome == DashQuitReturned => (cpc = "loop" /\ action = GoHome)

\* C1 amended: when the quit key is read in the Dashboard the scene sets the stop event
\* and joins every poller while the controller is still inside the Dashboard, then
\* returns (q, GoDashboard); the controller loop ends there and Home is not dispatched.
C1_QuitEndsSession ==
  /\ (dpc \in {"d_stop", "d_join"} => cpc = "dashboard")
  /\ (DashQuitReturned =>
        /\ JoinsDone(threads) /\ ~Running("t1") /\ ~Running("t2")
        /\ k = KEY_Q /\ action = GoDashboard /\ cpc = "done")

C1_Witness == DashQuitReturned /\ Len(threads) = 2 /\ loop_count = 2

\* C2: while a poller thread started by the Dashboard is running the controller is in
\* dashboard mode; once it has left (loop ended or error raised) the stop event is set
\* and every started poller has terminated.
C2_NoPollerOutlivesDashboard ==
  /\ (Running("t1") \/ Running("t2")) =>
       (cpc = "dashboard" \/ (cpc = "loop" /\ action = GoDashboard))
  /\ (cpc \in {"done", "crashed"} /\ Len(threads) > 0) =>
       (stop_threads_event /\ JoinsDone(threads))

C2_Witness == cpc = "crashed" /\ crash = "RenderError" /\ Len(threads) = 2

\* C3: once the stop event is set every poller terminates (its RPC calls returning or
\* raising), and it begins at most one fetch after the event was set.
C3_PollersStop ==
  /\ [](after_stop.t1 <= 1 /\ after_stop.t2 <= 1)
  /\ (stop_threads_event ~> (~Running("t1") /\ ~Running("t2")))

C3_Witness ==
  /\ stop_threads_event /\ after_stop.t1 = 1 /\ upc = "done" /\ bpc = "done"

\* C4: after a completed tick of the UTXO poller the container is exactly the map that
\* tick's get_utxos call returned.
C4_FullReplace == upc = "u_sleep" => utxos = new_utxos

\* a tick completed that dropped address 1, which the balance panel had painted
C4_Witness ==
  /\ upc = "u_sleep" /\ utxos = <<Utxo(2)>>
  /\ height = 12 /\ total_bal = Utxo(1).amount + Utxo(2).amount

\* no two neighbours of the block list carry the same hash
NoRepeatedTip(bs) == \A i \in 1..(Len(bs) - 1) : bs[i].hash # bs[i + 1].hash

\* bs is an initial segment of cs
IsPrefix(bs, cs) == Len(bs) <= Len(cs) /\ SubSeq(cs, 1, Len(bs)) = bs

\* C5: the block list only grows at its end, and no two consecutive entries carry the
\* same tip hash.
C5_BlocksGrowWithoutRepeats ==
  /\ [](NoRepeatedTip(blocks))
  /\ [][IsPrefix(blocks, blocks')]_vars

\* two tips were recorded and a later poll that read the last tip again added nothing
C5_Witness ==
  /\ Len(blocks) = 2 /\ bpc = "b_sleep" /\ saw = last_saw /\ after_stop.t2 = 1

\* C6 as stated: the running total painted by a render tick is the sum of the amounts
\* of all UTXOs in the container, whatever the terminal height.
C6_TotalIsSumOfAll == dpc = "d_unlock1" => total_bal = SumAmounts(utxos)

\* C8 as stated: the cursor stays within the menu items shown.
C8_CursorWithinShownItems == midx \in 0..(ItemCount(wallet_configs) - 1)

\* C9: HomeScene.draw returns Quit exactly when the key passed to it is the quit key.
C9_QuitIffQuitKey == hk # NO_CALL => (action = Quit <=> hk = KEY_Q)

C9_Witness == hk = KEY_Q /\ action = Quit /\ midx = 3

\* the scan worker's call raised socket.timeout and the foreground has read the result
ScanTimedOutAndRead ==
  /\ scan_thread.outcome = "timeout"
  /\ setup.pc \notin {"s_scan_poll", "s_scan_sleep", "s_scan_read"}

\* C7 as stated: after a socket timeout in the scan worker the onboarding does not
\* crash when the foreground reads the scan result, and goes on with a result.
C7_ScanTimeoutNotSurfaced ==
  ScanTimedOutAndRead => (cpc # "crashed" /\ crash = "none" /\ setup.scan_result.set)

\* the onboarding has not reached the sync loop, or is in it, or has left it
SyncStage ==
  LET at == IF setup.pc = "ended" THEN setup.ended_at ELSE setup.pc
  IN IF at \in {"idle", "s_discover", "s_config"} THEN "before"
     ELSE IF at = "s_sync" /\ setup.pc # "ended" THEN "in"
     ELSE "after"

\* the progress the polls so far leave behind: the last one reported, 0 when none was
RECURSIVE LastReported(_)
LastReported(polls) ==
  IF polls = <<>> THEN 0
  ELSE IF polls[Len(polls)] # POLL_RAISED THEN polls[Len(polls)]
  ELSE LastReported(SubSeq(polls, 1, Len(polls) - 1))

\* C10: the sync loop is left exactly at the first poll that reports a progress of at
\* least 0.999, never before and with no poll after it; a poll that raises leaves the
\* last known progress in place, does not end the onboarding, and is followed by
\* another poll.
C10_SyncExitsAtFirstSynced ==
  LET polls == setup.sync_polls
      n == Len(polls)
  IN /\ \A i \in 1..(n - 1) : polls[i] < SYNC_THRESHOLD
     /\ SyncStage # "before" => setup.chaininfo.verificationprogress = LastReported(polls)
     /\ SyncStage = "before" => n = 0
     /\ SyncStage = "after" => (n >= 1 /\ polls[n] >= SYNC_THRESHOLD)
     /\ SyncStage = "in" => cpc = "setup"
     /\ (SyncStage = "in" /\ n >= 1 /\ polls[n] = POLL_RAISED) =>
          ~SyncDone(setup.chaininfo)

\* a poll reported 50%, the next one raised, the third reported 99.9% and the loop ended
C10_Witness ==
  /\ setup.pc = "s_import"
  /\ setup.sync_polls = <<500, POLL_RAISED, 999>>

\* the stage the onboarding is in, or was in when the process ended
StageAt == IF setup.pc = "ended" THEN setup.ended_at ELSE setup.pc

\* the stages that come before the parse of public.txt
BeforeParsePcs == {"idle", "s_discover", "s_config", "s_sync", "s_import",
                   "s_import_spin", "s_import_poll"}

\* C11: the onboarding goes on to parsing exactly at the first poll that finds
\* public.txt, and while no poll of this run has seen the file it is in no later
\* stage and has written no wallet to the config.
C11_ImportWaitsForFile ==
  /\ [](StageAt \notin BeforeParsePcs => (setup.pubfile /\ files.public_txt))
  /\ []((config.written /\ setup.pc # "idle") => setup.pubfile)
  /\ [](StageAt \in {"s_import_spin", "s_import_poll"} => ~setup.pubfile)
  /\ [][(setup.pc = "s_import_poll" /\ setup' # setup) =>
          (files.public_txt <=> setup'.pc = "s_parse")]_vars

\* the file was placed, a poll saw it, and the wallet parsed from it was written
C11_Witness ==
  /\ setup.pc = "s_create" /\ setup.pubfile /\ config.written
  /\ setup.wallet \in config.wallets

\* the addresses of new_addrs for which the container holds no UTXO, in order
UnusedOf(addrs, us) ==
  LET NoUtxo(a) == \A j \in 1..Len(us) : us[j].address # a
  IN SelectSeq(addrs, NoUtxo)

\* C12: the address pass of a render tick leaves in new_addrs exactly the addresses
\* for which the container it reads holds no UTXO, in their order, and the list stays
\* so to the end of the tick.
C12_UsedAddressesDropped ==
  /\ [](dpc = "d_unlock2" =>
          \A i \in 1..Len(new_addrs) : DictIndex(utxos, new_addrs[i]) = 0)
  /\ [][(dpc = "d_lock2" /\ dpc' = "d_unlock2") =>
          new_addrs' = UnusedOf(new_addrs, utxos)]_vars
  /\ [][(dpc \in {"d_unlock2", "d_lock3", "d_unlock3"}) =>
          (new_addrs' = new_addrs)]_vars

\* address 2 had a UTXO and was dropped from between 1 and 3; the address asked for
\* in this tick was kept at the end
C12_Witness ==
  /\ dpc = "d_unlock3" /\ new_addrs = <<1, 3, 4>>

\* the number of entries of self.threads that are thread t
StartedCount(t) == Cardinality({i \in 1..Len(threads) : threads[i] = t})

\* C13: at most one UTXO poller and one block poller are ever started, and once a
\* render tick has completed exactly one of each has been: the first tick starts
\* both and later ticks start none.
C13_OnePollerOfEach ==
  /\ StartedCount("t1") <= 1 /\ StartedCount("t2") <= 1
  /\ Len(threads) = StartedCount("t1") + StartedCount("t2")
  /\ threads_started <=> (StartedCount("t1") = 1 /\ StartedCount("t2") = 1)
  /\ loop_count >= 1 => threads = <<"t1", "t2">>
  /\ dpc \in {"d_lock1", "d_unlock1", "d_lock2", "d_unlock2", "d_lock3", "d_unlock3"}
       => threads = <<"t1", "t2">>

\* the second tick has gone through start_threads
C13_Witness == loop_count = 1 /\ dpc = "d_lock1" /\ threads = <<"t1", "t2">>

\* the test that ends draw_menu's loop holds of the current key and action
QuitSeen == action = Quit \/ k = KEY_Q

\* C14: draw_menu's loop has ended exactly when the action is Quit or the key the
\* last scene returned is the quit key; otherwise an iteration dispatches the one
\* scene that matches the action: Home, the onboarding or the Dashboard.
C14_LoopEndsOnQuitOnly ==
  /\ [](cpc = "done" => QuitSeen)
  /\ [](cpc = "loop" => ~QuitSeen)
  /\ [][(cpc = "loop" /\ cpc' = "dashboard") => action = GoDashboard]_vars
  /\ [][(cpc = "loop" /\ cpc' = "setup") => action = GoSetup]_vars
  /\ [][(cpc = "loop" /\ cpc' \in {"loop", "done"}
           /\ <<k, action, midx, mchoice>>' # <<k, action, midx, mchoice>>)
          => action = GoHome]_vars
  /\ [][(cpc = "loop" /\ cpc' # "loop") => cpc' \in {"dashboard", "setup", "done"}]_vars

\* a session that went through the onboarding, then into the Dashboard, and ended on
\* the quit key the Dashboard returned
C14_Witness ==
  /\ cpc = "done" /\ k = KEY_Q /\ action = GoDashboard
  /\ setup_runs = 1 /\ Len(threads) = 2

\* C15: the controller enters the onboarding once per selection and stays in it until
\* it returns; it returns only from the declined test, the refused broadcast or the
\* completed round trip, and then the controller has action Home and no pending key
\* and is back at the top of its loop.
C15_SetupReturnsToHome ==
  /\ [](cpc = "setup" => (action = GoSetup /\ setup.pc # "idle"))
  /\ [](cpc # "setup" => setup.pc \in {"idle", "ended"})
  /\ [][(cpc = "loop" /\ cpc' = "setup") =>
          (setup_runs' = setup_runs + 1 /\ setup'.pc = "s_discover")]_vars
  /\ [][(cpc = "setup" /\ cpc' = "setup") => (k' = k /\ action' = action)]_vars
  /\ [][(setup.pc # "s_finish" /\ setup'.pc = "s_finish") =>
          setup.pc \in {"s_test_prompt", "s_confirm", "s_mempool"}]_vars
  /\ [][(cpc = "setup" /\ cpc' \notin {"setup", "exited", "crashed"}) =>
          (/\ setup.pc = "s_finish" /\ setup'.pc = "idle"
           /\ cpc' = "loop" /\ action' = GoHome /\ k' = NO_KEY)]_vars

\* the onboarding returned after the signed PSBT had been brought back
C15_Witness ==
  /\ setup_runs = 1 /\ setup.pc = "idle" /\ files.signed /\ next_addr = 2
  /\ cpc = "loop" /\ action = GoHome /\ k = NO_KEY

C17_ContainersUnderTheirLocks ==
  /\ [][utxos' # utxos =>
          (/\ upc \in {"u_lock", "u_update"}
           /\ utxos_lock' = "t1" \/ utxos_lock = "t1")]_vars
  /\ [][blocks' # blocks => (bpc = "b_append" /\ blocks_lock = "t2")]_vars
  /\ [](upc = "u_update" <=> utxos_lock = "t1")
  /\ [](bpc = "b_append" <=> blocks_lock = "t2")
  /\ [](dpc \in {"d_unlock1", "d_unlock2"} <=> utxos_lock = "render")
  /\ [](dpc = "d_unlock3" <=> blocks_lock = "render")
  /\ [][(dpc \in {"d_lock1", "d_lock2"} /\ dpc' \in {"d_unlock1", "d_unlock2"}) =>
          (utxos_lock = "free" /\ upc # "u_update"
           /\ (utxos = <<>> \/ utxos \in UtxoResponses))]_vars
  /\ [][(total_bal' # total_bal /\ dpc = "d_lock1") =>
          total_bal' = TotalBal(utxos, height)]_vars

\* the render holds utxos_lock over a completed poll's map while the poller waits at
\* the lock with the next response
C17_Witness ==
  /\ dpc = "d_unlock1" /\ utxos_lock = "render" /\ upc = "u_lock"
  /\ utxos = <<Utxo(1), Utxo(2)>> /\ new_utxos = <<Utxo(2)>>
  /\ bpc = "b_append"

\* a lock some thread holds
Held(lock) == lock # "free"

\* C18: no thread ever holds both locks, and a thread that waits (to acquire a lock,
\* in a sleep, or in the join of stop_threads, also after a render error) holds
\* neither; so a lock that is held while the Dashboard joins is held by a poller
\* inside its with-block, which can go on.
C18_LocksNeverNested ==
  /\ ~(utxos_lock = "render" /\ blocks_lock = "render")
  /\ utxos_lock \in {"free", "render", "t1"} /\ blocks_lock \in {"free", "render", "t2"}
  /\ dpc \in {"d_lock1", "d_lock2", "d_lock3", "d_stop", "d_join", "idle"} =>
       (utxos_lock # "render" /\ blocks_lock # "render")
  /\ upc \in {"idle", "u_start", "u_lock", "u_sleep", "u_fetch", "done", "crashed"} => utxos_lock # "t1"
  /\ bpc \in {"idle", "b_start", "b_lock", "b_sleep", "b_fetch", "done", "crashed"} => blocks_lock # "t2"
  /\ (dpc = "d_join" /\ Held(utxos_lock)) => upc = "u_update"
  /\ (dpc = "d_join" /\ Held(blocks_lock)) => bpc = "b_append"

\* after a render error the Dashboard joins while each poller is inside its with-block
C18_Witness ==
  /\ dpc = "d_join" /\ raising = "RenderError"
  /\ utxos_lock = "t1" /\ blocks_lock = "t2"

\* C19 as stated: a poller that begins an iteration, its first included, with the stop
\* event already set makes no RPC call and no write to its container.
C19_NoFetchOnceStopIsSet ==
  [][/\ (stop_threads_event /\ upc = "u_start") => upc' \in {"u_start", "done"}
     /\ (stop_threads_event /\ bpc = "b_start") => bpc' \in {"b_start", "done"}]_vars

\* C20 as stated: with no wallet configured Home never returns GoDashboard (the confirm
\* key can only yield GoSetup) and the Dashboard is never dispatched.
C20_NoDashboardWithoutWallet ==
  wallet_configs = <<>> =>
    (/\ action \in {GoHome, GoSetup, Quit}
     /\ cpc # "dashboard"
     /\ crash # "IndexError")

\* C21 as stated: in every wait stage of the onboarding a sleep separates any two
\* consecutive polls of the stage's condition; no stage polls back-to-back.
C21_NoBackToBackPolls == ~setup.back_to_back

\* the stages of the test round-trip that follow the question about it
TestRoundTripPcs == {"s_recv_poll", "s_recv_sleep", "s_prepare", "s_signed_poll",
                     "s_signed_sleep", "s_confirm", "s_mempool"}

\* C22: in the test round-trip the transaction is submitted only after confirm_broadcast
\* returned true; after the user declined the test, or refused at the confirmation, the
\* sequence is at its completion stage with nothing submitted, nothing further asked of
\* the user and no later wait entered; the mempool wait is entered only after a submit.
C22_SubmitOnlyAfterConfirmation ==
  /\ setup.sent => (setup.confirm_broadcast = "yes" /\ setup.got = "y")
  /\ setup.got = "n" =>
       (/\ setup.pc = "s_finish" /\ ~setup.sent
        /\ setup.confirm_broadcast = "none"
        /\ setup.receive_addr1 = 0 /\ ~setup.signed_wanted
        /\ setup.last_wait = "none")
  /\ setup.confirm_broadcast = "no" =>
       (setup.pc = "s_finish" /\ ~setup.sent /\ setup.last_wait = "none")
  /\ setup.pc \in TestRoundTripPcs => setup.got = "y"
  /\ setup.pc = "s_mempool" => setup.sent
  /\ setup.confirm_broadcast = "yes" => setup.sent

\* the user refused at the confirmation and the sequence is at its completion stage
C22_Witness ==
  /\ setup.pc = "s_finish"
  /\ setup.confirm_broadcast = "no"
  /\ setup.signed_wanted /\ files.signed

\* the parse of public.txt failed and ended the process
ParseFailed == setup.pc = "ended" /\ setup.ended_at = "s_parse"

\* a wallet is added to the config, the config is written, or a wallet is created or
\* a descriptor imported on the node, in this step
RegistersWallet ==
  \/ config'.wallets # config.wallets
  \/ config'.written /\ ~config.written
  \/ node'.wallets # node.wallets
  \/ node'.imported # node.imported

\* C23: a failed parse of public.txt ends the process (exit) leaving the config and the
\* node as they were; from then on no wallet is added, nothing is written and nothing
\* is created or imported on the node; a wallet is added, the config written and the
\* node's wallet created only in the steps that follow a successful parse.
C23_ParseFailureChangesNothing ==
  /\ []((StageAt \in BeforeParsePcs \cup {"s_parse"}) => setup.wallet = "none")
  /\ []((StageAt \in (BeforeParsePcs \ {"idle"}) \cup {"s_parse"}) => ~config.written)
  /\ [](ParseFailed => (cpc = "exited" /\ crash = "SystemExit"))
  /\ [][(setup.pc = "s_parse" /\ setup'.pc = "ended") =>
          (ParseFailed' /\ config' = config /\ node' = node)]_vars
  /\ [][ParseFailed => (ParseFailed' /\ ~RegistersWallet)]_vars
  /\ [][RegistersWallet =>
          (setup.pc \in {"s_register", "s_create"} /\ setup.wallet # "none")]_vars

\* public.txt was found, its parse failed and the process has exited
C23_Witness ==
  /\ ParseFailed /\ cpc = "exited"
  /\ setup.pubfile /\ files.public_txt
  /\ ~config.written /\ node.wallets = {}

\* a poller's thread has ended: it returned from its loop or an exception ended it
Ended(pc) == pc \in {"done", "crashed"}

\* C24: the stop event, once set, is never cleared by any step of the controller, the
\* scenes or the pollers; after it is set no poller is started or started again, a
\* poller that has ended stays ended, and a poller that tests the event finds it set
\* and leaves its loop.
C24_StopSignalStaysSet ==
  /\ [][stop_threads_event => stop_threads_event']_vars
  /\ [][stop_threads_event =>
          (/\ threads' = threads /\ threads_started' = threads_started
           /\ (upc = "idle" => upc' = "idle") /\ (bpc = "idle" => bpc' = "idle")
           /\ (Ended(upc) => upc' = upc) /\ (Ended(bpc) => bpc' = bpc))]_vars
  /\ [][stop_threads_event =>
          (/\ (upc = "u_sleep" /\ upc' # upc) => upc' = "done"
           /\ (bpc = "b_sleep" /\ bpc' # bpc) => bpc' = "done")]_vars

\* the Dashboard stopped both pollers, each tested the event and returned, and the
\* scene has returned
C24_Witness ==
  /\ stop_threads_event /\ Len(threads) = 2 /\ threads_started
  /\ upc = "done" /\ bpc = "done"
  /\ dpc = "idle" /\ raising = "none" /\ cpc = "done"

\* the rescan task the onboarding launched last: its rescanblockchain call has reached
\* the node
RescanCallStarted ==
  /\ rescan_threads # <<>>
  /\ rescan_threads[Len(rescan_threads)] # "start"

\* C25 as stated: the rescan-progress wait ends, and the wallet is announced ready to
\* use, only when the launched rescan task's call has started on the node and the node
\* has finished that rescan and reports no active scan.
C25_ReadyOnlyAfterRescan ==
  [][(~setup.ready /\ setup'.ready) =>
       (RescanCallStarted /\ ~node.scanning /\ node.rescans >= 1)]_vars

\* the scan call returned a result and the foreground has gone past reading it
ScanCompletedAndRead ==
  /\ setup.scan_result.set
  /\ StageAt \notin {"s_scan_poll", "s_scan_sleep"}
  /\ setup.pc # "s_scan_read"

\* C26 as stated: for every result the scan returns, one with no unspent output
\* included, the onboarding computes a rescan start height and goes on to the rescan
\* stage; the sequence does not end with an error where it reads a completed scan.
C26_CompletedScanProceeds ==
  ScanCompletedAndRead =>
    (/\ ~(setup.pc = "ended" /\ setup.ended_at = "s_scan_read")
     /\ setup.rescan_begin_height # NO_HEIGHT)
====
